---- MODULE Spec2Model ----
(***************************************************************************)
(* Model of src/ide_cont_burgers_custom_training.py: the PhysicsInformedNN *)
(* object (construction, fit, grad, loss, f_model, predict) and the data   *)
(* preparation of the script (meshgrid, flattening, sampling).             *)
(*                                                                         *)
(* Tensors are sequences (1-indexed; row k of the source is element k+1).  *)
(* Floating-point values are integers: coordinates in grid units, the two  *)
(* scalars lambda_1, lambda_2 in thousandths.  The network's output and    *)
(* its derivatives are not computed: an evaluation is identified by the    *)
(* points it is evaluated at, a gradient by the variable it is taken with  *)
(* respect to.                                                             *)
(***************************************************************************)
EXTENDS Integers, Sequences, FiniteSets, TLC

VARIABLES
  aliased,             \* build: Layer.trainable_variables returns the layer's own list
  u_model,             \* self.u_model: one record per Dense layer
  weights,             \* per layer, the layer's own list of trainable variables
  lambda_1,            \* value of self.lambda_1, thousandths
  lambda_2,            \* value of self.lambda_2, thousandths
  attrs,               \* attributes set on self besides those set by __init__
  X_u, u, x_f, t_f,    \* self.X_u, self.u, self.x_f, self.t_f
  train_loss_results,  \* self.train_loss_results
  epochs, epoch,       \* fit's argument and loop variable
  loss_value,          \* the loss returned by grad in this epoch
  grads,               \* the gradient list returned by grad in this epoch
  pairs,               \* the (gradient, variable) pairs of the last apply_gradients
  f_pred,              \* the residual of the last f_model evaluation
  gradCalls,           \* calls of grad in the current fit
  applyCalls,          \* calls of apply_gradients in the current fit
  granted,             \* epochs asked of fit so far, all calls together
  fitCalled,           \* fit has been called
  pc,                  \* "idle", "loop", "graded", "ret"
  ret,                 \* what the last call returned to its caller
  data,                \* the loaded file: t, x, usol
  X_star, u_star,      \* the flattened grid and the flattened solution
  idx,                 \* the sampled row indices
  X_u_train, u_train,  \* the training pairs
  dpc                  \* position of the script's data preparation

pinnVars == <<aliased, u_model, weights, lambda_1, lambda_2, attrs,
              X_u, u, x_f, t_f, train_loss_results, epochs, epoch, loss_value,
              grads, pairs, f_pred, gradCalls, applyCalls, granted, fitCalled,
              pc, ret>>
dataVars == <<data, X_star, u_star, idx, X_u_train, u_train, dpc>>
vars == <<pinnVars, dataVars>>

(***************************************************************************)
(* Bounds of the model.                                                    *)
(***************************************************************************)
MaxEpochs == 3
MaxRows == 2
MaxStar == 1
Nx == 3
Nt == 2
N_u == 2
MaxCoef == 2

Min(a, b) == IF a <= b THEN a ELSE b

SeqsUpTo(S, lo, hi) == UNION {[1..n -> S] : n \in lo..hi}

(***************************************************************************)
(* Hyper-parameters.                                                       *)
(***************************************************************************)
layers == <<2, 20, 20, 20, 20, 20, 20, 20, 20, 1>>

\* Adam(learning_rate=0.001), in thousandths
learning_rate == 1

(***************************************************************************)
(* tf.convert_to_tensor(..., dtype="float32"): the float64 inputs are      *)
(* rounded to the coarser float32 grid.  Inputs are integers; the float32  *)
(* grid is the even integers.                                              *)
(***************************************************************************)
ToFloat32(v) == (v \div 2) * 2

ConvertRows(M) == [i \in 1..Len(M) |-> [j \in 1..Len(M[i]) |-> ToFloat32(M[i][j])]]

\* the two columns taken for each other
ColumnSliceSwapped(M, c) == [i \in 1..Len(M) |-> <<ToFloat32(M[i][3 - c])>>]

\* M[:, c:c+1] converted to float32: an (n,1) tensor
ColumnSlice(M, c) == [i \in 1..Len(M) |-> <<ToFloat32(M[i][c])>>]

(***************************************************************************)
(* Construction.                                                           *)
(***************************************************************************)
Kernel(l) == <<"kernel", l>>
Bias(l) == <<"bias", l>>
Lambda1 == <<"lambda_1", 0>>
Lambda2 == <<"lambda_2", 0>>

NumDense == Len(layers) - 1

\* tf.keras.layers.Dense(width, activation=tf.nn.tanh)
Dense(width, inputs) == [units |-> width, inputs |-> inputs, activation |-> "tanh"]

\* InputLayer(input_shape=(layers[0],)), then one Dense per width of layers[1:]
BuildModel == [l \in 1..NumDense |-> Dense(layers[l + 1], layers[l])]

DenseWeights == [l \in 1..NumDense |-> <<Kernel(l), Bias(l)>>]

\* self.u_model.layers[-1].trainable_variables.extend([lambda_1, lambda_2]):
\* the list extended is the layer's own list only in a build whose property
\* returns that list; otherwise it is a temporary copy.
ExtendLastLayer(w, alias) ==
  IF alias
    THEN [w EXCEPT ![NumDense] = w[NumDense] \o <<Lambda1, Lambda2>>]
    ELSE w

RECURSIVE ConcatUpTo(_, _)
ConcatUpTo(w, l) == IF l = 0 THEN <<>> ELSE ConcatUpTo(w, l - 1) \o w[l]

\* self.u_model.trainable_variables: a new list on every read
TrainableVariables == ConcatUpTo(weights, NumDense)

NetVars == ConcatUpTo(DenseWeights, NumDense)

(***************************************************************************)
(* f_model, loss, grad.                                                    *)
(***************************************************************************)
RawCoef(v) == [op |-> "raw", arg |-> v]

\* tf.exp(v) of a float32
ExpCoef(v) == [op |-> "exp", arg |-> v]

\* float32 exp is 0 below ln(2^-150), about -103.972
CoefPositive(c) ==
  IF c.op = "exp" THEN c.arg >= -103972 ELSE c.arg > 0

\* l1 = self.lambda_1
AdvectionCoef == RawCoef(lambda_1)

\* l2 = self.lambda_2, the exponential left out
ViscosityCoefRaw == RawCoef(lambda_2)

\* l2 = tf.exp(self.lambda_2)
ViscosityCoef == ExpCoef(lambda_2)

\* X_f = tf.stack([self.x_f[:,0], self.t_f[:,0]], axis=1)
StackColumns(a, b) == [i \in 1..Min(Len(a), Len(b)) |-> <<a[i][1], b[i][1]>>]

\* u_t + l1*u*u_x - l2*u_xx at the points X_f
F_model ==
  [pts |-> StackColumns(x_f, t_f),
   terms |-> <<[sign |-> 1, coef |-> RawCoef(1), of |-> "u_t"],
               [sign |-> 1, coef |-> AdvectionCoef, of |-> "u*u_x"],
               [sign |-> -1, coef |-> ViscosityCoef, of |-> "u_xx"]>>]

NoF == [pts |-> <<>>, terms |-> <<>>]

\* self.u_model(X): one output row per row of X
U_model(X) == [i \in 1..Len(X) |-> <<X[i][1], X[i][2]>>]

\* tf.reduce_mean(tf.square(u - u_pred)) + tf.reduce_mean(tf.square(f_pred)):
\* a mean over the rows of u_pred and a mean over the rows of f_pred
LossValue(u_pred, f) == [data_rows |-> Len(u_pred), f_rows |-> Len(f.pts)]

NoLoss == [data_rows |-> 0, f_rows |-> 0]

\* var = trainable_variables; var.extend([lambda_1, lambda_2])
GradVars == TrainableVariables \o <<Lambda1, Lambda2>>

\* tape.gradient(loss_value, var): one gradient per entry of var
Grad == [i \in 1..Len(GradVars) |-> [wrt |-> GradVars[i]]]

\* var = self.u_model.trainable_variables, in fit
FitVars == TrainableVariables

\* zip(grads, var)
Zip(g, v) == [i \in 1..Min(Len(g), Len(v)) |-> <<g[i], v[i]>>]

Updated(ps) == {ps[i][2] : i \in 1..Len(ps)}

\* range(epochs + 1): one iteration too many
LoopContinuesOffByOne == epoch <= epochs

\* range(epochs)
LoopContinues == epoch < epochs

(***************************************************************************)
(* The object.                                                             *)
(***************************************************************************)
NoRet == [op |-> "none", ok |-> TRUE, X |-> <<>>, u_star |-> <<>>, f_star |-> NoF]

RawPoints == {<<1, 2>>, <<2, 5>>}
RawTargets == {<<3>>}
StarPoints == {<<0, 0>>, <<3, 1>>}

NoData == [x |-> <<>>, t |-> <<>>, usol |-> <<>>]

DataOff ==
  /\ data = NoData
  /\ X_star = <<>>
  /\ u_star = <<>>
  /\ idx = <<>>
  /\ X_u_train = <<>>
  /\ u_train = <<>>
  /\ dpc = "off"

\* PhysicsInformedNN.__init__
Init ==
  /\ aliased \in BOOLEAN
  /\ u_model = BuildModel
  /\ lambda_1 = 0
  /\ lambda_2 = -6000
  /\ weights = ExtendLastLayer(DenseWeights, aliased)
  /\ attrs = {}
  /\ X_u = <<>>
  /\ u = <<>>
  /\ x_f = <<>>
  /\ t_f = <<>>
  /\ train_loss_results = <<>>
  /\ epochs = 0
  /\ epoch = 0
  /\ loss_value = NoLoss
  /\ grads = <<>>
  /\ pairs = <<>>
  /\ f_pred = NoF
  /\ gradCalls = 0
  /\ applyCalls = 0
  /\ granted = 0
  /\ fitCalled = FALSE
  /\ pc = "idle"
  /\ ret = NoRet
  /\ DataOff

\* fit, lines 104-112
Fit(Xarg, uarg, e) ==
  /\ pc = "idle"
  /\ granted + e <= MaxEpochs
  /\ granted' = granted + e
  /\ fitCalled' = TRUE
  /\ X_u' = ConvertRows(Xarg)
  /\ u' = ConvertRows(uarg)
  /\ x_f' = ColumnSlice(Xarg, 1)
  /\ t_f' = ColumnSlice(Xarg, 2)
  /\ attrs' = attrs \cup {"X_u", "u", "x_f", "t_f", "train_loss_results"}
  /\ train_loss_results' = <<>>
  /\ epochs' = e
  /\ epoch' = 0
  /\ gradCalls' = 0
  /\ applyCalls' = 0
  /\ pc' = "loop"
  /\ UNCHANGED <<aliased, u_model, weights, lambda_1, lambda_2, loss_value,
                 grads, pairs, f_pred, ret>>
  /\ UNCHANGED dataVars

\* loss_value, grads = self.grad(self.X_u, self.u)
EpochGrad ==
  /\ pc = "loop"
  /\ LoopContinues
  /\ f_pred' = F_model
  /\ loss_value' = LossValue(U_model(X_u), F_model)
  /\ grads' = Grad
  /\ gradCalls' = gradCalls + 1
  /\ pc' = "graded"
  /\ UNCHANGED <<aliased, u_model, weights, lambda_1, lambda_2, attrs,
                 X_u, u, x_f, t_f, train_loss_results, epochs, epoch, pairs,
                 applyCalls, granted, fitCalled, ret>>
  /\ UNCHANGED dataVars

\* One Adam step of a scalar in the pairs: of the size of the learning rate, in
\* either direction, or none (zero gradient); a scalar not in the pairs stays
AdamStep(v, ps, name) ==
  IF name \in Updated(ps)
    THEN {v - learning_rate, v, v + learning_rate}
    ELSE {v}

\* apply_gradients(zip(grads, var)), the append to train_loss_results, the log
EpochApply ==
  /\ pc = "graded"
  /\ LET ps == Zip(grads, FitVars) IN
       /\ pairs' = ps
       /\ lambda_1' \in AdamStep(lambda_1, ps, Lambda1)
       /\ lambda_2' \in AdamStep(lambda_2, ps, Lambda2)
  /\ applyCalls' = applyCalls + 1
  /\ train_loss_results' = Append(train_loss_results, loss_value)
  /\ epoch' = epoch + 1
  /\ loss_value' = NoLoss
  /\ grads' = <<>>
  /\ f_pred' = NoF
  /\ pc' = "loop"
  /\ UNCHANGED <<aliased, u_model, weights, attrs, X_u, u, x_f, t_f, epochs,
                 gradCalls, granted, fitCalled, ret>>
  /\ UNCHANGED dataVars

\* the loop is exhausted: fit returns
FitReturn ==
  /\ pc = "loop"
  /\ ~LoopContinues
  /\ ret' = [op |-> "fit", ok |-> TRUE, X |-> <<>>, u_star |-> <<>>, f_star |-> NoF]
  /\ pc' = "ret"
  /\ UNCHANGED <<aliased, u_model, weights, lambda_1, lambda_2, attrs,
                 X_u, u, x_f, t_f, train_loss_results, epochs, epoch, loss_value,
                 grads, pairs, f_pred, gradCalls, applyCalls, granted, fitCalled>>
  /\ UNCHANGED dataVars

\* as if __init__ had set x_f and t_f
FModelRunsAlways == TRUE

\* f_model reads self.x_f and self.t_f: AttributeError when they are not set
FModelRuns == {"x_f", "t_f"} \subseteq attrs

\* a call from outside fit that evaluates u_model(X) and then f_model()
CallResult(op, X) ==
  IF FModelRuns
    THEN [op |-> op, ok |-> TRUE, X |-> X, u_star |-> U_model(X), f_star |-> F_model]
    ELSE [op |-> op, ok |-> FALSE, X |-> X, u_star |-> <<>>, f_star |-> NoF]

\* predict(X_star), loss(u, u_model(X)), grad(X, u): none changes self
Call(op, Xs) ==
  /\ pc = "idle"
  /\ ret' = CallResult(op, Xs)
  /\ pc' = "ret"
  /\ UNCHANGED <<aliased, u_model, weights, lambda_1, lambda_2, attrs,
                 X_u, u, x_f, t_f, train_loss_results, epochs, epoch, loss_value,
                 grads, pairs, f_pred, gradCalls, applyCalls, granted, fitCalled>>
  /\ UNCHANGED dataVars

Predict(Xs) == Call("predict", Xs)

Loss(Xs) == Call("loss", Xs)

GradCall(Xs) == Call("grad", Xs)

\* the caller takes the result
Return ==
  /\ pc = "ret"
  /\ ret' = NoRet
  /\ pc' = "idle"
  /\ UNCHANGED <<aliased, u_model, weights, lambda_1, lambda_2, attrs,
                 X_u, u, x_f, t_f, train_loss_results, epochs, epoch, loss_value,
                 grads, pairs, f_pred, gradCalls, applyCalls, granted, fitCalled>>
  /\ UNCHANGED dataVars

StarInputs == SeqsUpTo(StarPoints, 0, MaxStar)

Next ==
  \/ \E n \in 1..MaxRows : \E Xarg \in [1..n -> RawPoints] :
       \E uarg \in [1..n -> RawTargets] : \E e \in 0..MaxEpochs :
         Fit(Xarg, uarg, e)
  \/ EpochGrad
  \/ EpochApply
  \/ FitReturn
  \/ \E Xs \in StarInputs : Predict(Xs)
  \/ \E Xs \in StarInputs : Loss(Xs)
  \/ \E Xs \in StarInputs : GradCall(Xs)
  \/ Return

Spec == Init /\ [][Next]_vars

(***************************************************************************)
(* The script's data preparation, lines 140-167.                           *)
(***************************************************************************)
\* data['x'], data['t']: Nx positions and Nt times
GridX == [i \in 1..Nx |-> 10 * i]
GridT == [j \in 1..Nt |-> 100 + j]

\* data['usol']: Nx rows (positions) by Nt columns (times)
Sol(a, b) == [i \in 1..Nx |-> [j \in 1..Nt |-> a * i + b * Nx * j]]

Files == {[x |-> GridX, t |-> GridT, usol |-> Sol(a, b)] : a, b \in 0..MaxCoef}

\* the transposition left out
TransposeOmitted(M) == M

\* M.T
Transpose(M) == [j \in 1..Len(M[1]) |-> [i \in 1..Len(M) |-> M[i][j]]]

\* M.flatten(): row-major
RECURSIVE FlattenUpTo(_, _)
FlattenUpTo(M, r) == IF r = 0 THEN <<>> ELSE FlattenUpTo(M, r - 1) \o M[r]

Flatten(M) == FlattenUpTo(M, Len(M))

\* X, T = np.meshgrid(x, t): both of shape (len(t), len(x))
MeshgridX(xs, ts) == [j \in 1..Len(ts) |-> [i \in 1..Len(xs) |-> xs[i]]]
MeshgridT(xs, ts) == [j \in 1..Len(ts) |-> [i \in 1..Len(xs) |-> ts[j]]]

\* np.hstack((a[:,None], b[:,None]))
Hstack(a, b) == [k \in 1..Min(Len(a), Len(b)) |-> <<a[k], b[k]>>]

\* v[:,None]
Column(v) == [k \in 1..Len(v) |-> <<v[k]>>]

\* Exact_u = np.real(data['usol']).T, the file's solution being real
Exact_u == Transpose(data.usol)

\* np.random.choice(n, size) with its default replace=True
ChoiceWithReplacement(n, size) == [1..size -> 0..(n - 1)]

\* np.random.choice(n, size, replace=False): any size distinct indices below n
Choice(n, size) ==
  {s \in [1..size -> 0..(n - 1)] : \A i, j \in 1..size : i # j => s[i] # s[j]}

\* M[ix,:]
TakeRows(M, ix) == [i \in 1..Len(ix) |-> M[ix[i] + 1]]

PinnAbsent ==
  /\ aliased = FALSE
  /\ u_model = <<>>
  /\ lambda_1 = 0
  /\ lambda_2 = 0
  /\ weights = <<>>
  /\ attrs = {}
  /\ X_u = <<>>
  /\ u = <<>>
  /\ x_f = <<>>
  /\ t_f = <<>>
  /\ train_loss_results = <<>>
  /\ epochs = 0
  /\ epoch = 0
  /\ loss_value = NoLoss
  /\ grads = <<>>
  /\ pairs = <<>>
  /\ f_pred = NoF
  /\ gradCalls = 0
  /\ applyCalls = 0
  /\ granted = 0
  /\ fitCalled = FALSE
  /\ pc = "absent"
  /\ ret = NoRet

\* scipy.io.loadmat, line 141
DataInit ==
  /\ data \in Files
  /\ X_star = <<>>
  /\ u_star = <<>>
  /\ idx = <<>>
  /\ X_u_train = <<>>
  /\ u_train = <<>>
  /\ dpc = "loaded"
  /\ PinnAbsent

\* lines 144-157: X_star and u_star
FlattenGrid ==
  /\ dpc = "loaded"
  /\ X_star' = Hstack(Flatten(MeshgridX(data.x, data.t)),
                      Flatten(MeshgridT(data.x, data.t)))
  /\ u_star' = Column(Flatten(Exact_u))
  /\ dpc' = "flat"
  /\ UNCHANGED <<data, idx, X_u_train, u_train>>
  /\ UNCHANGED pinnVars

\* line 165: idx; numpy raises ValueError when N_u exceeds the number of rows
Sample ==
  /\ dpc = "flat"
  /\ IF N_u <= Len(X_star)
       THEN /\ idx' \in Choice(Len(X_star), N_u)
            /\ dpc' = "sampled"
       ELSE /\ idx' = idx
            /\ dpc' = "error"
  /\ UNCHANGED <<data, X_star, u_star, X_u_train, u_train>>
  /\ UNCHANGED pinnVars

\* lines 166-167: X_u_train and u_train
Gather ==
  /\ dpc = "sampled"
  /\ X_u_train' = TakeRows(X_star, idx)
  /\ u_train' = TakeRows(u_star, idx)
  /\ dpc' = "gathered"
  /\ UNCHANGED <<data, X_star, u_star, idx>>
  /\ UNCHANGED pinnVars

DataNext == FlattenGrid \/ Sample \/ Gather

DataSpec == DataInit /\ [][DataNext]_vars

(***************************************************************************)
(* Properties.                                                             *)
(***************************************************************************)
NoDuplicates(q) == \A i, j \in 1..Len(q) : i # j => q[i] # q[j]

\* C1: every apply_gradients call of fit receives a (gradient, variable) pair
\* for lambda_1 and one for lambda_2, besides one pair per network kernel and
\* bias.
C1_JointStep ==
  pairs # <<>> =>
    /\ Lambda1 \in Updated(pairs)
    /\ Lambda2 \in Updated(pairs)
    /\ \A i \in 1..Len(NetVars) : NetVars[i] \in Updated(pairs)

\* C2: the network has 2 inputs, eight hidden layers of width 20 with tanh
\* activation, and a final layer of width 1 with a linear output.
C2_Architecture ==
  u_model # <<>> =>
    /\ Len(u_model) = 9
    /\ u_model[1].inputs = 2
    /\ \A l \in 1..8 : u_model[l].units = 20 /\ u_model[l].activation = "tanh"
    /\ u_model[9].units = 1
    /\ u_model[9].activation = "linear"

\* C3: after construction every read of u_model.trainable_variables yields the
\* network kernels and biases plus lambda_1 and lambda_2, each scalar once,
\* whatever number of epochs has run.
C3_ScalarsAppended ==
  pc # "absent" => TrainableVariables = NetVars \o <<Lambda1, Lambda2>>

\* C4: fit runs exactly `epochs` iterations, each one full-batch gradient
\* computation followed by one optimizer step; train_loss_results holds k
\* entries after k completed epochs and `epochs` entries when fit returns, and
\* fit can always take its next step until it returns.
C4_FixedEpochs ==
  /\ pc = "loop" =>
       /\ epoch <= epochs
       /\ gradCalls = epoch
       /\ applyCalls = epoch
       /\ Len(train_loss_results) = epoch
       /\ ENABLED (EpochGrad \/ FitReturn)
  /\ pc = "graded" =>
       /\ epoch < epochs
       /\ gradCalls = epoch + 1
       /\ applyCalls = epoch
       /\ Len(train_loss_results) = epoch
       /\ loss_value.data_rows = Len(X_u)
       /\ loss_value.f_rows = Len(X_u)
       /\ ENABLED EpochApply
  /\ (pc = "ret" /\ ret.op = "fit") =>
       /\ epoch = epochs
       /\ gradCalls = epochs
       /\ applyCalls = epochs
       /\ Len(train_loss_results) = epochs
       /\ \A k \in 1..epochs : train_loss_results[k].data_rows = Len(X_u)

C4_Witness ==
  /\ pc = "ret"
  /\ ret.op = "fit"
  /\ epochs = MaxEpochs
  /\ Len(train_loss_results) = MaxEpochs
  /\ Len(X_u) = MaxRows

\* C5: the N_u sampled row indices are pairwise distinct and lie in
\* [0, number of grid rows); training input i and training target i are both
\* taken from grid row idx[i].
C5_SampleWithoutReplacement ==
  /\ dpc \in {"sampled", "gathered"} =>
       /\ Len(idx) = N_u
       /\ NoDuplicates(idx)
       /\ \A i \in 1..Len(idx) : 0 <= idx[i] /\ idx[i] < Len(X_star)
  /\ dpc = "gathered" =>
       /\ Len(X_u_train) = N_u
       /\ Len(u_train) = N_u
       /\ \A i \in 1..N_u :
            /\ X_u_train[i] = X_star[idx[i] + 1]
            /\ u_train[i] = u_star[idx[i] + 1]

C5_Witness ==
  /\ dpc = "gathered"
  /\ idx[1] > idx[2]
  /\ u_train[1] # u_train[2]
  /\ X_u_train[1] # X_u_train[2]

C6_SamePoints ==
  "x_f" \in attrs =>
     /\ Len(x_f) = Len(X_u)
     /\ Len(t_f) = Len(X_u)
     /\ Len(u) = Len(X_u)
     /\ \A i \in 1..Len(X_u) : x_f[i] = <<X_u[i][1]>> /\ t_f[i] = <<X_u[i][2]>>
     /\ F_model.pts = X_u
     /\ pc = "graded" => f_pred.pts = X_u

C6_OnlyFit ==
  (x_f' # x_f \/ t_f' # t_f) => (pc = "idle" /\ pc' = "loop")

\* C6: the collocation points of the residual are the training inputs: after
\* fit, row i of (x_f, t_f) is row i of the training inputs, there are as many
\* collocation points as training pairs, and only fit's entry changes x_f, t_f.
C6_Collocation == []C6_SamePoints /\ [][C6_OnlyFit]_vars

C6_Witness ==
  /\ pc = "graded"
  /\ Len(X_u) = 2
  /\ X_u[1] # X_u[2]
  /\ X_u[1][1] # X_u[1][2]
  /\ granted > epochs

Residual(f) ==
  /\ Len(f.terms) = 3
  /\ f.terms[1] = [sign |-> 1, coef |-> RawCoef(1), of |-> "u_t"]
  /\ f.terms[2] = [sign |-> 1, coef |-> RawCoef(lambda_1), of |-> "u*u_x"]
  /\ f.terms[3] = [sign |-> -1, coef |-> ExpCoef(lambda_2), of |-> "u_xx"]
  /\ CoefPositive(f.terms[3].coef)

\* C7: at every evaluation of f_model the residual is
\* u_t + lambda_1*u*u_x - exp(lambda_2)*u_xx, lambda_1 used raw, and the
\* factor exp(lambda_2) of u_xx is strictly positive for every value of
\* lambda_2 that training reaches.
C7_Viscosity ==
  /\ pc = "graded" => Residual(f_pred)
  /\ (pc = "ret" /\ ret.ok /\ ret.op # "fit") => Residual(ret.f_star)

C7_Witness ==
  /\ pc = "graded"
  /\ lambda_2 < -6000
  /\ lambda_1 # 0
  /\ Residual(f_pred)

\* C8: at every apply_gradients call the gradient list and the variable list
\* have the same length, gradient i is the gradient with respect to variable
\* i, and no variable occurs twice in either list.
C8_ZipAligned ==
  pc = "graded" =>
    /\ Len(grads) = Len(FitVars)
    /\ \A i \in 1..Len(grads) : grads[i].wrt = FitVars[i]
    /\ NoDuplicates(grads)
    /\ NoDuplicates(FitVars)

\* C9: predict (like loss and grad) succeeds only after fit has been called;
\* its f_star is evaluated at the collocation points stored by the most recent
\* fit, one row per training pair whatever X_star is, and its u_star has one
\* row per row of X_star.
C9_Predict ==
  (pc = "ret" /\ ret.op \in {"predict", "loss", "grad"}) =>
    /\ ret.ok <=> fitCalled
    /\ ret.ok =>
         /\ ret.f_star.pts = X_u
         /\ Len(ret.f_star.pts) = Len(X_u)
         /\ Len(ret.u_star) = Len(ret.X)
         /\ \A i \in 1..Len(ret.X) : ret.u_star[i] = ret.X[i]

C9_Witness ==
  /\ pc = "ret"
  /\ ret.op = "predict"
  /\ ret.ok
  /\ Len(ret.X) = 1
  /\ Len(ret.f_star.pts) = 2
  /\ ret.f_star.pts = X_u

\* C10: row k of X_star is (x[k mod Nx], t[k div Nx]) and row k of u_star is
\* usol[k mod Nx, k div Nx], for every k in [0, Nx*Nt); so each training pair
\* and each row of the full grid pairs a (position, time) with the solution
\* at that position and time.
C10_Aligned ==
  /\ dpc \in {"flat", "sampled", "gathered"} =>
       /\ Len(X_star) = Nx * Nt
       /\ Len(u_star) = Nx * Nt
       /\ \A k \in 0..(Nx * Nt - 1) :
            /\ X_star[k + 1] = <<data.x[(k % Nx) + 1], data.t[(k \div Nx) + 1]>>
            /\ u_star[k + 1] = <<data.usol[(k % Nx) + 1][(k \div Nx) + 1]>>
  /\ dpc = "gathered" =>
       \A i \in 1..Len(idx) :
         /\ X_u_train[i] = <<data.x[(idx[i] % Nx) + 1], data.t[(idx[i] \div Nx) + 1]>>
         /\ u_train[i] = <<data.usol[(idx[i] % Nx) + 1][(idx[i] \div Nx) + 1]>>

C10_Witness ==
  /\ dpc = "gathered"
  /\ data.usol[1][2] # data.usol[2][1]
  /\ data.usol[1][1] # data.usol[Nx][Nt]
  /\ idx[1] \div Nx # idx[2] \div Nx
  /\ idx[1] % Nx # idx[2] % Nx

====
